---------------------------- MODULE Spec2Model ----------------------------
(***************************************************************************)
(* A model of the state manager of state.go: a registry of named states,   *)
(* the current-state pointer, the transition checks of Transit and the     *)
(* OnEnd / OnBegin / OnChange sequencing.                                  *)
(*                                                                         *)
(* One action is one call of an exported operation, run to completion     *)
(* (the program is single-threaded and synchronous).  The variables call,  *)
(* ret and events describe the call that produced the state: what was      *)
(* called, what it returned and which hooks it invoked, in order, each     *)
(* with the value sm.curr had when the hook was entered.                   *)
(***************************************************************************)
EXTENDS Integers, Sequences, FiniteSets

\* How many distinct *IdleState values the caller creates with new(IdleState).
MaxCopies == 2

\* How many successful transitions are followed while the hooks are counted.
MaxTransits == 3

-----------------------------------------------------------------------------
(* Values *)

\* The nil State / nil error of Go.
Nil == [type |-> "nil", id |-> 0]

NoErr == "nil"

ErrStateNotFound == "state not found."

ErrForbidSameStateTransit == "forbid same state transit."

ErrCannotTransitToState == "cannot transit to state."

\* What a call reports when it panics instead of returning.
Panic == "panic"

\* The concrete types behind the State interface.  IdleState, MoveState and
\* JumpState are the ones of state.go; LoopState, LockState and anon are
\* further implementations a caller of the package can write by embedding
\* StateInfo: LoopState allows same-state transit but its CanTransitTo
\* rejects "LoopState", LockState keeps the default EnableSameTransit and
\* its CanTransitTo rejects every name, and anon is the unnamed type
\* struct{ StateInfo }, with every default.
Types == {"IdleState", "MoveState", "JumpState", "LoopState", "LockState", "anon"}

\* reflect.Type.Name(): the name of a defined type, "" for an unnamed one.
ReflectName(t) == IF t = "anon" THEN "" ELSE t

\* The state values (pointers) the caller hands to Add.
Instances ==
    {[type |-> t, id |-> 1] : t \in Types}
        \cup {[type |-> "IdleState", id |-> k] : k \in 2..MaxCopies}

\* The strings the caller passes as names: every name a registered state
\* can have, and one that is never registered.
Names == {ReflectName(t) : t \in Types} \cup {"unknown"}

-----------------------------------------------------------------------------
VARIABLES
    stateByName,    \* sm.stateByName: name -> state, Nil where the key is absent
    curr,           \* sm.curr
    OnChange,       \* whether sm.OnChange is non-nil
    name,           \* StateInfo.name of every state value
    transited,      \* history: some Transit has returned nil
    call,           \* the last call: [op, name, state]
    ret,            \* what it returned: [err, state, bool]
    events,         \* the hooks it invoked, in order
    main,           \* history: how far the calls so far are those of main()
    tally           \* history: the hooks invoked and the transitions made so far

vars == <<stateByName, curr, OnChange, name, transited, call, ret, events, main, tally>>

-----------------------------------------------------------------------------
(* The State interface and StateInfo *)

StateName(s) == IF s = Nil THEN "none" ELSE ReflectName(s.type)

Name(s) == name[s]

\* Faulty variant: MoveState's override is missing.
EnableSameTransitDefault(s) == s.type \in {"LoopState"}

EnableSameTransit(s) == s.type \in {"MoveState", "LoopState"}

CanTransitTo(s, n) ==
    CASE s.type = "JumpState" -> n # "MoveState"
      [] s.type = "LoopState" -> n # "LoopState"
      [] s.type = "LockState" -> FALSE
      [] OTHER -> TRUE

\* One hook invocation: which hook, its receiver (OnBegin, OnEnd) or its
\* arguments (OnChange), and sm.curr at the moment of the call.
Event(kind, self, from, to, c) ==
    [kind |-> kind, self |-> self, from |-> from, to |-> to, curr |-> c]

-----------------------------------------------------------------------------
(* StateManager *)

Get(n) == stateByName[n]

Call(op, n, s) == [op |-> op, name |-> n, state |-> s]

Ret(err, s, b) == [err |-> err, state |-> s, bool |-> b]

Init ==
    /\ stateByName = [n \in Names |-> Nil]
    /\ curr = Nil
    /\ OnChange = FALSE
    /\ name = [s \in Instances |-> ""]
    /\ transited = FALSE
    /\ call = Call("NewStateManager", "", Nil)
    /\ ret = Ret(NoErr, Nil, FALSE)
    /\ events = <<>>
    /\ main = [pc |-> 0, hooks |-> <<>>]
    /\ tally = [ok |-> 0, begun |-> 0, ended |-> 0, open |-> [s \in Instances |-> 0]]

\* sm.OnChange = f, or sm.OnChange = nil.
SetOnChange(b) ==
    /\ OnChange' = b
    /\ call' = Call("SetOnChange", "", Nil)
    /\ ret' = Ret(NoErr, Nil, b)
    /\ events' = <<>>
    /\ UNCHANGED <<stateByName, curr, name, transited>>

\* Faulty variant: the state is stored under the name it had before setName.
AddRunOldName(s) ==
    IF s = Nil
    THEN [stateByName |-> stateByName, name |-> name, err |-> Panic]
    ELSE LET named == [name EXCEPT ![s] = StateName(s)]
         IN  IF Get(StateName(s)) # Nil
             THEN [stateByName |-> stateByName, name |-> named, err |-> Panic]
             ELSE [stateByName |-> [stateByName EXCEPT ![Name(s)] = s],
                   name |-> named,
                   err |-> NoErr]

\* Faulty variant: Add without the duplicate check.
AddRunReplacing(s) ==
    IF s = Nil
    THEN [stateByName |-> stateByName, name |-> name, err |-> Panic]
    ELSE [stateByName |-> [stateByName EXCEPT ![StateName(s)] = s],
          name |-> [name EXCEPT ![s] = StateName(s)],
          err |-> NoErr]

\* What Add(s) does to the registry and to the names, and how it ends.
\* setName runs before the duplicate check, so a rejected state value keeps
\* the name it was given; Add(nil) panics in the type assertion.
AddRun(s) ==
    IF s = Nil
    THEN [stateByName |-> stateByName, name |-> name, err |-> Panic]
    ELSE LET named == [name EXCEPT ![s] = StateName(s)]
         IN  IF Get(StateName(s)) # Nil
             THEN [stateByName |-> stateByName, name |-> named, err |-> Panic]
             ELSE [stateByName |-> [stateByName EXCEPT ![StateName(s)] = s],
                   name |-> named,
                   err |-> NoErr]

\* Faulty variant: the first state added becomes the current state.
AddMakesCurrent(s) ==
    LET r == AddRun(s)
    IN  /\ stateByName' = r.stateByName
        /\ name' = r.name
        /\ curr' = IF r.err = NoErr THEN s ELSE curr
        /\ call' = Call("Add", "", s)
        /\ ret' = Ret(r.err, Nil, FALSE)
        /\ events' = <<>>
        /\ UNCHANGED <<OnChange, transited>>

Add(s) ==
    LET r == AddRun(s)
    IN  /\ stateByName' = r.stateByName
        /\ name' = r.name
        /\ call' = Call("Add", "", s)
        /\ ret' = Ret(r.err, Nil, FALSE)
        /\ events' = <<>>
        /\ UNCHANGED <<curr, OnChange, transited>>

GetCall(n) ==
    /\ call' = Call("Get", n, Nil)
    /\ ret' = Ret(NoErr, Get(n), FALSE)
    /\ events' = <<>>
    /\ UNCHANGED <<stateByName, curr, OnChange, name, transited>>

CurrState ==
    /\ call' = Call("CurrState", "", Nil)
    /\ ret' = Ret(NoErr, curr, FALSE)
    /\ events' = <<>>
    /\ UNCHANGED <<stateByName, curr, OnChange, name, transited>>

\* Faulty variant: the same-state rule is missing.
CanCurrTransitToRunNoSame(n) ==
    IF curr = Nil
    THEN TRUE
    ELSE CanTransitTo(curr, n)

\* Faulty variant: false when there is no current state.
CanCurrTransitToRunNilFalse(n) ==
    IF curr = Nil
    THEN FALSE
    ELSE IF Name(curr) = n /\ ~EnableSameTransit(curr)
         THEN FALSE
         ELSE CanTransitTo(curr, n)

\* The value CanCurrTransitTo(n) returns in the present state.
CanCurrTransitToRun(n) ==
    IF curr = Nil
    THEN TRUE
    ELSE IF Name(curr) = n /\ ~EnableSameTransit(curr)
         THEN FALSE
         ELSE CanTransitTo(curr, n)

CanCurrTransitTo(n) ==
    /\ call' = Call("CanCurrTransitTo", n, Nil)
    /\ ret' = Ret(NoErr, Nil, CanCurrTransitToRun(n))
    /\ events' = <<>>
    /\ UNCHANGED <<stateByName, curr, OnChange, name, transited>>

-----------------------------------------------------------------------------
(* Transit.  A run of Transit is followed through m = [curr, events, err]: *)
(* sm.curr, the hooks invoked so far, and the error it is returning.       *)

\* sm.curr.OnEnd()
CallOnEnd(m) ==
    [m EXCEPT !.events = Append(@, Event("OnEnd", m.curr, Nil, Nil, m.curr))]

\* sm.curr = next
SetCurr(m, next) == [m EXCEPT !.curr = next]

\* sm.curr.OnBegin()
CallOnBegin(m) ==
    [m EXCEPT !.events = Append(@, Event("OnBegin", m.curr, Nil, Nil, m.curr))]

\* Faulty variant: sm.OnChange(sm.curr, sm.curr).
CallOnChangeFromCurr(m, pre) ==
    IF OnChange
    THEN [m EXCEPT !.events = Append(@, Event("OnChange", Nil, m.curr, m.curr, m.curr))]
    ELSE m

\* if sm.OnChange != nil { sm.OnChange(pre, sm.curr) }
CallOnChange(m, pre) ==
    IF OnChange
    THEN [m EXCEPT !.events = Append(@, Event("OnChange", Nil, pre, m.curr, m.curr))]
    ELSE m

\* Faulty variant: OnEnd runs before CanTransitTo is asked.
LeaveCurrEndFirst(m, n) ==
    IF m.curr = Nil
    THEN m
    ELSE IF Name(m.curr) = n /\ ~EnableSameTransit(m.curr)
         THEN [m EXCEPT !.err = ErrForbidSameStateTransit]
         ELSE IF ~CanTransitTo(m.curr, n)
              THEN [CallOnEnd(m) EXCEPT !.err = ErrCannotTransitToState]
              ELSE CallOnEnd(m)

\* Faulty variant: the same-state check is missing.
LeaveCurrNoSameCheck(m, n) ==
    IF m.curr = Nil
    THEN m
    ELSE IF ~CanTransitTo(m.curr, n)
         THEN [m EXCEPT !.err = ErrCannotTransitToState]
         ELSE CallOnEnd(m)

\* Faulty variant: same-state transit is refused whatever EnableSameTransit says.
LeaveCurrForbidSame(m, n) ==
    IF m.curr = Nil
    THEN m
    ELSE IF Name(m.curr) = n
         THEN [m EXCEPT !.err = ErrForbidSameStateTransit]
         ELSE IF ~CanTransitTo(m.curr, n)
              THEN [m EXCEPT !.err = ErrCannotTransitToState]
              ELSE CallOnEnd(m)

\* Faulty variant: CanTransitTo is never asked.
LeaveCurrNoPredicate(m, n) ==
    IF m.curr = Nil
    THEN m
    ELSE IF Name(m.curr) = n /\ ~EnableSameTransit(m.curr)
         THEN [m EXCEPT !.err = ErrForbidSameStateTransit]
         ELSE CallOnEnd(m)

\* Faulty variant: a rejected transition leaves no state current.
LeaveCurrResetOnReject(m, n) ==
    IF m.curr = Nil
    THEN m
    ELSE IF Name(m.curr) = n /\ ~EnableSameTransit(m.curr)
         THEN [m EXCEPT !.err = ErrForbidSameStateTransit]
         ELSE IF ~CanTransitTo(m.curr, n)
              THEN [m EXCEPT !.err = ErrCannotTransitToState, !.curr = Nil]
              ELSE CallOnEnd(m)

\* Faulty variant: CanTransitTo is asked before the same-state check.
LeaveCurrPredicateFirst(m, n) ==
    IF m.curr = Nil
    THEN m
    ELSE IF ~CanTransitTo(m.curr, n)
         THEN [m EXCEPT !.err = ErrCannotTransitToState]
         ELSE IF Name(m.curr) = n /\ ~EnableSameTransit(m.curr)
              THEN [m EXCEPT !.err = ErrForbidSameStateTransit]
              ELSE CallOnEnd(m)

\* Faulty variant: OnEnd is not invoked on a same-state transit.
LeaveCurrNoEndOnSame(m, n) ==
    IF m.curr = Nil
    THEN m
    ELSE IF Name(m.curr) = n /\ ~EnableSameTransit(m.curr)
         THEN [m EXCEPT !.err = ErrForbidSameStateTransit]
         ELSE IF ~CanTransitTo(m.curr, n)
              THEN [m EXCEPT !.err = ErrCannotTransitToState]
              ELSE IF Name(m.curr) = n THEN m ELSE CallOnEnd(m)

\* The block under "if sm.curr != nil": the two checks, then OnEnd.
LeaveCurr(m, n) ==
    IF m.curr = Nil
    THEN m
    ELSE IF Name(m.curr) = n /\ ~EnableSameTransit(m.curr)
         THEN [m EXCEPT !.err = ErrForbidSameStateTransit]
         ELSE IF ~CanTransitTo(m.curr, n)
              THEN [m EXCEPT !.err = ErrCannotTransitToState]
              ELSE CallOnEnd(m)

\* Faulty variant: next.OnBegin() runs before sm.curr = next.
EnterNextBeginFirst(m, pre, next) ==
    CallOnChange(
        SetCurr([m EXCEPT !.events = Append(@, Event("OnBegin", next, Nil, Nil, m.curr))],
                next),
        pre)

\* Faulty variant: OnChange is invoked before OnBegin.
EnterNextNotifyFirst(m, pre, next) == CallOnBegin(CallOnChange(SetCurr(m, next), pre))

\* From "sm.curr = next" to the notification.
EnterNext(m, pre, next) == CallOnChange(CallOnBegin(SetCurr(m, next)), pre)

\* Faulty variant: the checks on sm.curr run before the nil check of the lookup.
TransitRunLookupLast(n) ==
    LET m0 == [curr |-> curr, events |-> <<>>, err |-> NoErr]
        next == Get(n)
        m1 == LeaveCurr(m0, n)
    IN  IF m1.err # NoErr
        THEN m1
        ELSE IF next = Nil
             THEN [m0 EXCEPT !.err = ErrStateNotFound]
             ELSE EnterNext(m1, m0.curr, next)

\* Transit(n) from the lookup to the return.
TransitRun(n) ==
    LET m0 == [curr |-> curr, events |-> <<>>, err |-> NoErr]
        next == Get(n)
    IN  IF next = Nil
        THEN [m0 EXCEPT !.err = ErrStateNotFound]
        ELSE LET pre == m0.curr
                 m1 == LeaveCurr(m0, n)
             IN  IF m1.err # NoErr THEN m1 ELSE EnterNext(m1, pre, next)

Transit(n) ==
    LET m == TransitRun(n)
    IN  /\ curr' = m.curr
        /\ events' = m.events
        /\ call' = Call("Transit", n, Nil)
        /\ ret' = Ret(m.err, Nil, FALSE)
        /\ transited' = (transited \/ m.err = NoErr)
        /\ UNCHANGED <<stateByName, OnChange, name>>

-----------------------------------------------------------------------------
(* main() and the history variables *)

\* new(T)
New(t) == [type |-> t, id |-> 1]

\* The calls of main(), in order.
MainCalls ==
    << Call("SetOnChange", "", Nil),
       Call("Add", "", New("IdleState")),
       Call("Add", "", New("MoveState")),
       Call("Add", "", New("JumpState")),
       Call("Transit", "IdleState", Nil),
       Call("Transit", "MoveState", Nil),
       Call("Transit", "MoveState", Nil),
       Call("Transit", "JumpState", Nil),
       Call("Transit", "JumpState", Nil),
       Call("Transit", "IdleState", Nil) >>

\* What the OnBegin and OnEnd hooks of a call print: <<type, hook>>.
Printed(evs) ==
    LET hooks == SelectSeq(evs, LAMBDA e : e.kind \in {"OnBegin", "OnEnd"})
    IN  [i \in 1..Len(hooks) |-> <<hooks[i].self.type, hooks[i].kind>>]

\* main after the call c (returning r, with the hooks evs), when it was at
\* mn after the call c0 (returning r0): pc counts the calls of MainCalls
\* made, and is -1 once the calls are no longer those of main.  After a
\* Transit that failed, transitAndReport calls sm.CurrState() before main
\* goes on.
Follow(mn, c0, r0, c, r, evs) ==
    LET off == [pc |-> -1, hooks |-> <<>>]
    IN  IF mn.pc < 0
        THEN off
        ELSE IF c0.op = "Transit" /\ r0.err # NoErr
             THEN IF c.op = "CurrState" THEN mn ELSE off
             ELSE IF /\ mn.pc < Len(MainCalls)
                     /\ c = MainCalls[mn.pc + 1]
                     /\ (c.op = "SetOnChange" => r.bool)
                  THEN [pc |-> mn.pc + 1, hooks |-> mn.hooks \o Printed(evs)]
                  ELSE off

\* How many of the hooks evs are the hook k of the state s.
HookCount(evs, k, s) ==
    Cardinality({i \in 1..Len(evs) : evs[i].kind = k /\ evs[i].self = s})

\* The tally after a call c that returned r and invoked the hooks evs:
\* successful transitions, OnBegin calls, OnEnd calls, and for every state
\* its OnBegin calls minus its OnEnd calls.
Tally(tl, c, r, evs) ==
    [ok |-> tl.ok + (IF c.op = "Transit" /\ r.err = NoErr THEN 1 ELSE 0),
     begun |-> tl.begun + Cardinality({i \in 1..Len(evs) : evs[i].kind = "OnBegin"}),
     ended |-> tl.ended + Cardinality({i \in 1..Len(evs) : evs[i].kind = "OnEnd"}),
     open |-> [s \in Instances |->
                 tl.open[s] + HookCount(evs, "OnBegin", s) - HookCount(evs, "OnEnd", s)]]

\* The calls are compared with main(); the hooks are not counted.
Observe ==
    /\ main' = Follow(main, call, ret, call', ret', events')
    /\ tally' = tally

\* The hooks are counted, up to MaxTransits successful transitions.
Count ==
    /\ (call'.op = "Transit" /\ ret'.err = NoErr) => tally.ok < MaxTransits
    /\ tally' = Tally(tally, call', ret', events')
    /\ main' = main

-----------------------------------------------------------------------------
Next ==
    \/ \E b \in BOOLEAN : SetOnChange(b) /\ Observe
    \/ \E s \in Instances \cup {Nil} : Add(s) /\ Observe
    \/ \E n \in Names : GetCall(n) /\ Observe
    \/ CurrState /\ Observe
    \/ \E n \in Names : CanCurrTransitTo(n) /\ Observe
    \/ \E n \in Names : Transit(n) /\ Observe

Spec == Init /\ [][Next]_vars

NextCount ==
    \/ \E b \in BOOLEAN : SetOnChange(b) /\ Count
    \/ \E s \in Instances \cup {Nil} : Add(s) /\ Count
    \/ \E n \in Names : GetCall(n) /\ Count
    \/ CurrState /\ Count
    \/ \E n \in Names : CanCurrTransitTo(n) /\ Count
    \/ \E n \in Names : Transit(n) /\ Count

SpecCount == Init /\ [][NextCount]_vars

-----------------------------------------------------------------------------
(* Properties *)

TransitErrors == {ErrStateNotFound, ErrForbidSameStateTransit, ErrCannotTransitToState}

\* The kinds of the hooks of a call, in order.
Kinds(evs) == [i \in 1..Len(evs) |-> evs[i].kind]

\* How many hooks of kind k a call invoked.
KindCount(evs, k) == Cardinality({i \in 1..Len(evs) : evs[i].kind = k})

\* C1: a Transit call that returns one of the three errors leaves sm.curr,
\* the registry and everything else of the manager as they were, and
\* invokes no OnBegin, no OnEnd and no OnChange.
C1_FailedTransitChangesNothing ==
    [][(call'.op = "Transit" /\ ret'.err # NoErr)
        => /\ ret'.err \in TransitErrors
           /\ curr' = curr
           /\ stateByName' = stateByName
           /\ name' = name
           /\ OnChange' = OnChange
           /\ events' = <<>>]_vars

C1_Witness ==
    /\ call.op = "Transit"
    /\ ret.err = ErrCannotTransitToState
    /\ curr # Nil
    /\ Get(call.name) # Nil

\* C2: a successful Transit from a non-nil current state invokes OnEnd on
\* the outgoing state while it is still current, then sets sm.curr to the
\* target, then invokes OnBegin on the target while it is current, then
\* OnChange if it is set, and nothing else; no OnEnd follows an OnBegin.
C2_TransitOrder ==
    [][(call'.op = "Transit" /\ ret'.err = NoErr /\ curr # Nil)
        => LET target == Get(call'.name)
               e == events'
           IN  /\ Kinds(e) = IF OnChange THEN <<"OnEnd", "OnBegin", "OnChange">>
                                         ELSE <<"OnEnd", "OnBegin">>
               /\ e[1].self = curr /\ e[1].curr = curr
               /\ e[2].self = target /\ e[2].curr = target
               /\ OnChange => e[3].curr = target
               /\ curr' = target
               /\ \A i, j \in 1..Len(e) :
                    (e[i].kind = "OnBegin" /\ e[j].kind = "OnEnd") => j < i]_vars

C2_Witness ==
    /\ call.op = "Transit"
    /\ ret.err = NoErr
    /\ Len(events) = 3
    /\ events[1].kind = "OnEnd"
    /\ events[2].kind = "OnBegin"
    /\ events[1].self # events[2].self

\* C3: sm.curr is nil or a state value of the registry, found there under
\* its own name: Get(CurrState().Name()) = CurrState().
C3_CurrIsRegistered ==
    curr # Nil => (Name(curr) \in Names /\ Get(Name(curr)) = curr)

C3_Witness ==
    /\ curr # Nil
    /\ call.op = "Add"
    /\ ret.err = Panic
    /\ call.state # Nil
    /\ call.state # curr
    /\ StateName(call.state) = Name(curr)

\* C4: Transit of a name that is not registered returns ErrStateNotFound
\* and leaves sm.curr alone, whatever the current state is.
C4_UnknownTarget ==
    [][(call'.op = "Transit" /\ Get(call'.name) = Nil)
        => (ret'.err = ErrStateNotFound /\ curr' = curr)]_vars

C4_Witness ==
    /\ call.op = "Transit"
    /\ ret.err = ErrStateNotFound
    /\ curr # Nil
    /\ ~CanTransitTo(curr, call.name)

\* C5: when the current state A does not allow same-state transit,
\* Transit of A's name returns ErrForbidSameStateTransit and A stays current.
C5_SameStateForbidden ==
    [][(call'.op = "Transit" /\ curr # Nil /\ call'.name = Name(curr)
            /\ ~EnableSameTransit(curr))
        => (ret'.err = ErrForbidSameStateTransit /\ curr' = curr)]_vars

C5_Witness ==
    /\ call.op = "Transit"
    /\ ret.err = ErrForbidSameStateTransit
    /\ curr # Nil
    /\ call.name = Name(curr)

\* What C6 asks of a Transit step that re-enters the current state: it
\* returns nil, the state stays current, and OnEnd and then OnBegin are each
\* invoked exactly once, on that same state value.
SameStateReentered ==
    /\ ret'.err = NoErr
    /\ curr' = curr
    /\ Len(events') >= 2
    /\ events'[1] = Event("OnEnd", curr, Nil, Nil, curr)
    /\ events'[2] = Event("OnBegin", curr, Nil, Nil, curr)
    /\ KindCount(events', "OnEnd") = 1
    /\ KindCount(events', "OnBegin") = 1

\* C6 as stated: when the current state A allows same-state transit,
\* Transit of A's name succeeds and runs A.OnEnd, then A.OnBegin, once each.
C6_AsStated ==
    [][(call'.op = "Transit" /\ curr # Nil /\ call'.name = Name(curr)
            /\ EnableSameTransit(curr))
        => SameStateReentered]_vars

\* C6, amended: the same, when moreover A.CanTransitTo accepts A's own name.
C6_SameStateAllowed ==
    [][(call'.op = "Transit" /\ curr # Nil /\ call'.name = Name(curr)
            /\ EnableSameTransit(curr) /\ CanTransitTo(curr, Name(curr)))
        => SameStateReentered]_vars

C6_Witness ==
    /\ call.op = "Transit"
    /\ ret.err = NoErr
    /\ Len(events) >= 2
    /\ events[1].kind = "OnEnd"
    /\ events[2].kind = "OnBegin"
    /\ events[1].self = curr
    /\ events[2].self = curr

\* What C7 asks of a rejected Transit step: ErrCannotTransitToState, the
\* current state stays, and no hook is invoked.
NotPermitted ==
    /\ ret'.err = ErrCannotTransitToState
    /\ curr' = curr
    /\ events' = <<>>

\* C7 as stated: when the current state A rejects the name of a registered
\* state B, Transit(B) returns ErrCannotTransitToState, A stays current and
\* neither A.OnEnd nor B.OnBegin is invoked.
C7_AsStated ==
    [][(call'.op = "Transit" /\ curr # Nil /\ Get(call'.name) # Nil
            /\ ~CanTransitTo(curr, call'.name))
        => NotPermitted]_vars

\* C7, amended: the same, when B is not A itself or A allows same-state
\* transit (otherwise the call ends in ErrForbidSameStateTransit).
C7_PredicateRejects ==
    [][(call'.op = "Transit" /\ curr # Nil /\ Get(call'.name) # Nil
            /\ ~CanTransitTo(curr, call'.name)
            /\ (call'.name # Name(curr) \/ EnableSameTransit(curr)))
        => NotPermitted]_vars

C7_Witness ==
    /\ call.op = "Transit"
    /\ ret.err = ErrCannotTransitToState
    /\ curr # Nil
    /\ Get(call.name) # Nil
    /\ Get(call.name) # curr
    /\ events = <<>>

\* C8: as long as no Transit has succeeded, sm.curr is nil and
\* CanCurrTransitTo is true of every registered name.
C8_BeforeFirstTransit ==
    ~transited
        => /\ curr = Nil
           /\ \A x \in Names : Get(x) # Nil => CanCurrTransitToRun(x)
           /\ (call.op = "CanCurrTransitTo" /\ Get(call.name) # Nil) => ret.bool

C8_Witness ==
    /\ ~transited
    /\ call.op = "Transit"
    /\ ret.err = ErrStateNotFound
    /\ \E x \in Names : Get(x) # Nil /\ Get(x).type = "LockState"

\* C9: with no current state, Transit of a registered name A succeeds; A
\* is then current and carries that name, A.OnBegin was invoked once, no
\* OnEnd was invoked, and OnChange, if set, was invoked once with (nil, A).
C9_FirstTransit ==
    [][(call'.op = "Transit" /\ curr = Nil /\ Get(call'.name) # Nil)
        => LET A == Get(call'.name)
           IN  /\ ret'.err = NoErr
               /\ curr' = A
               /\ name'[curr'] = call'.name
               /\ events' = IF OnChange
                            THEN <<Event("OnBegin", A, Nil, Nil, A),
                                   Event("OnChange", Nil, Nil, A, A)>>
                            ELSE <<Event("OnBegin", A, Nil, Nil, A)>>]_vars

C9_Witness ==
    /\ call.op = "Transit"
    /\ ret.err = NoErr
    /\ Len(events) = 2
    /\ events[1].kind = "OnBegin"
    /\ events[2].kind = "OnChange"
    /\ events[2].from = Nil
    /\ events[2].to = curr

\* C10: a successful Transit invokes OnChange exactly once when it is set
\* (and not at all when it is not), with the state that was current before
\* the call (or nil) and the target; at that moment sm.curr is the target
\* and the target's OnBegin has run; after a same-state transit both
\* arguments are the same state value.
C10_Notification ==
    [][(call'.op = "Transit" /\ ret'.err = NoErr)
        => LET target == Get(call'.name)
               e == events'
               notes == {i \in 1..Len(e) : e[i].kind = "OnChange"}
           IN  /\ Cardinality(notes) = IF OnChange THEN 1 ELSE 0
               /\ \A i \in notes :
                    /\ e[i].from = curr
                    /\ e[i].to = target
                    /\ e[i].curr = e[i].to
                    /\ \E j \in 1..(i - 1) :
                         e[j].kind = "OnBegin" /\ e[j].self = target
                    /\ (curr # Nil /\ call'.name = Name(curr)) => e[i].from = e[i].to]_vars

C10_Witness ==
    /\ call.op = "Transit"
    /\ ret.err = NoErr
    /\ Len(events) = 3
    /\ events[3].kind = "OnChange"
    /\ events[3].from = events[3].to
    /\ events[3].to = curr

\* C11: after a successful Add(S), Get(Name(S)) is S; a name gets an entry
\* only by a successful Add of a state of that name, so Get returns nil for
\* every name never added; and Get returns what the registry holds.
C11_AddThenGet ==
    [][/\ (call'.op = "Add" /\ ret'.err = NoErr)
            => stateByName'[name'[call'.state]] = call'.state
       /\ \A n \in Names :
            (stateByName[n] = Nil /\ stateByName'[n] # Nil)
                => /\ call'.op = "Add"
                   /\ ret'.err = NoErr
                   /\ StateName(call'.state) = n
                   /\ stateByName'[n] = call'.state
       /\ call'.op = "Get" => ret'.state = stateByName'[call'.name]]_vars

C11_Witness ==
    /\ call.op = "Get"
    /\ ret.state = Nil
    /\ \E n \in Names : Get(n) # Nil /\ Name(Get(n)) = n

\* C12: Add of a state whose name is already registered panics and leaves
\* the registry (so also the state first registered under that name) and
\* sm.curr as they were.
C12_DuplicateAdd ==
    [][(call'.op = "Add" /\ call'.state # Nil /\ Get(StateName(call'.state)) # Nil)
        => /\ ret'.err = Panic
           /\ stateByName' = stateByName
           /\ curr' = curr]_vars

C12_Witness ==
    /\ call.op = "Add"
    /\ ret.err = Panic
    /\ call.state # Nil
    /\ Get(StateName(call.state)) # Nil
    /\ Get(StateName(call.state)) # call.state

\* C13: CanCurrTransitTo(name) changes nothing and invokes no hook; it
\* returns true when there is no current state, otherwise false when name
\* is the current state's name and that state disallows same-state transit,
\* otherwise the current state's CanTransitTo(name).
C13_CanCurrTransitTo ==
    [][(call'.op = "CanCurrTransitTo")
        => /\ UNCHANGED <<stateByName, curr, OnChange, name>>
           /\ events' = <<>>
           /\ ret'.bool =
                IF curr = Nil
                THEN TRUE
                ELSE IF call'.name = Name(curr) /\ ~EnableSameTransit(curr)
                     THEN FALSE
                     ELSE CanTransitTo(curr, call'.name)]_vars

C13_Witness ==
    /\ call.op = "CanCurrTransitTo"
    /\ curr # Nil
    /\ call.name = Name(curr)
    /\ CanTransitTo(curr, call.name)
    /\ ~ret.bool

\* The scenario of C14: what each of the six Transit calls of main returns,
\* the state that is current after it, and how many hooks have run by then.
Scenario ==
    << [err |-> NoErr, curr |-> "IdleState", hooks |-> 1],
       [err |-> NoErr, curr |-> "MoveState", hooks |-> 3],
       [err |-> NoErr, curr |-> "MoveState", hooks |-> 5],
       [err |-> NoErr, curr |-> "JumpState", hooks |-> 7],
       [err |-> ErrForbidSameStateTransit, curr |-> "JumpState", hooks |-> 7],
       [err |-> NoErr, curr |-> "IdleState", hooks |-> 9] >>

ScenarioHooks ==
    << <<"IdleState", "OnBegin">>, <<"IdleState", "OnEnd">>,
       <<"MoveState", "OnBegin">>, <<"MoveState", "OnEnd">>,
       <<"MoveState", "OnBegin">>, <<"MoveState", "OnEnd">>,
       <<"JumpState", "OnBegin">>, <<"JumpState", "OnEnd">>,
       <<"IdleState", "OnBegin">> >>

\* C14: in main (Idle, Move and Jump registered, then Transit of Idle,
\* Move, Move, Jump, Jump, Idle) the calls return nil, nil, nil, nil,
\* ErrForbidSameStateTransit, nil; the current state after each is Idle,
\* Move, Move, Jump, Jump, Idle; and the hooks run are those of
\* ScenarioHooks, in that order.
C14_MainScenario ==
    \A k \in 1..Len(Scenario) :
        (main.pc = Len(MainCalls) - Len(Scenario) + k /\ call.op = "Transit")
            => /\ ret.err = Scenario[k].err
               /\ curr = New(Scenario[k].curr)
               /\ main.hooks = SubSeq(ScenarioHooks, 1, Scenario[k].hooks)

C14_Witness ==
    /\ main.pc = Len(MainCalls)
    /\ call.op = "Transit"
    /\ Len(main.hooks) = Len(ScenarioHooks)

\* C15: a successful Add, in whatever state it is called, leaves sm.curr
\* alone, leaves every name already registered with the same state value,
\* and invokes no OnBegin, OnEnd or OnChange.
C15_AddHasNoTransitionEffect ==
    [][(call'.op = "Add" /\ ret'.err = NoErr)
        => /\ curr' = curr
           /\ \A n \in Names : stateByName[n] # Nil => stateByName'[n] = stateByName[n]
           /\ events' = <<>>
           /\ transited' = transited]_vars

C15_Witness ==
    /\ call.op = "Add"
    /\ ret.err = NoErr
    /\ transited
    /\ curr # Nil
    /\ call.state # curr

\* C16: no call ever sets sm.curr back to nil, and once a Transit has
\* succeeded sm.curr is non-nil, also after failed Transit calls.
C16_CurrNeverReset ==
    [][/\ curr # Nil => curr' # Nil
       /\ transited' => curr' # Nil
       /\ curr' = Nil => ~transited'
       /\ \A i \in 1..Len(events') : events'[i].curr # Nil]_vars

C16_Witness ==
    /\ transited
    /\ curr # Nil
    /\ call.op = "Transit"
    /\ ret.err = ErrCannotTransitToState
    /\ Get("LoopState") = curr

\* C17: Transit's checks have a fixed precedence: an unregistered target
\* gives ErrStateNotFound whatever the current state says; a registered
\* target that is the current state's own name, same-state transit
\* disallowed, gives ErrForbidSameStateTransit even when CanTransitTo
\* rejects the name too; ErrCannotTransitToState comes only when the
\* same-state rule did not reject, and in particular for a same-state
\* transit that is allowed but whose own predicate rejects its own name.
C17_CheckPrecedence ==
    [][(call'.op = "Transit")
        => LET n == call'.name
               same == curr # Nil /\ n = Name(curr)
           IN  /\ Get(n) = Nil => ret'.err = ErrStateNotFound
               /\ (Get(n) # Nil /\ same /\ ~EnableSameTransit(curr))
                    => ret'.err = ErrForbidSameStateTransit
               /\ ret'.err = ErrCannotTransitToState
                    => /\ Get(n) # Nil
                       /\ ~(same /\ ~EnableSameTransit(curr))
                       /\ ~CanTransitTo(curr, n)
               /\ (same /\ EnableSameTransit(curr) /\ ~CanTransitTo(curr, n))
                    => ret'.err = ErrCannotTransitToState]_vars

C17_Witness ==
    /\ call.op = "Transit"
    /\ ret.err = ErrForbidSameStateTransit
    /\ curr # Nil
    /\ ~CanTransitTo(curr, call.name)

\* The part of C18 about stability: a registered name keeps its state value
\* and that value carries the name; only Add writes the registry or a name.
RegistryStable ==
    /\ \A n \in Names : stateByName'[n] # Nil => name'[stateByName'[n]] = n
    /\ \A n \in Names : stateByName[n] # Nil => stateByName'[n] = stateByName[n]
    /\ call'.op # "Add" => (stateByName' = stateByName /\ name' = name)

\* C18: for every registered name n, Get(n) has Name() = n, n is not empty,
\* and Get(n) is the state value first added under n; no call but Add
\* writes the registry or a name.
C18_AsStated ==
    [][/\ RegistryStable
       /\ \A n \in Names : stateByName'[n] # Nil => n # ""]_vars

\* What does hold of the registry: C18 without "non-empty".
C18_RegistryStable == [][RegistryStable]_vars

\* C19: Transit(n) returns nil exactly when n is registered and
\* CanCurrTransitTo(n), asked in the state of the call, is true.
C19_TransitAgreesWithCanCurrTransitTo ==
    [][(call'.op = "Transit")
        => (ret'.err = NoErr
              <=> (Get(call'.name) # Nil /\ CanCurrTransitToRun(call'.name)))]_vars

C19_Witness ==
    /\ call.op = "Transit"
    /\ ret.err = ErrStateNotFound
    /\ CanCurrTransitToRun(call.name)
    /\ curr # Nil

\* C20: after any sequence of calls, for every registered state S the
\* OnBegin calls on S minus the OnEnd calls on S are 1 if S is current and
\* 0 otherwise; the OnBegin calls are as many as the successful Transit
\* calls, and the OnEnd calls one fewer (none when no Transit succeeded).
C20_HooksBalanced ==
    /\ \A n \in Names :
         Get(n) # Nil => tally.open[Get(n)] = IF Get(n) = curr THEN 1 ELSE 0
    /\ tally.begun = tally.ok
    /\ tally.ended = IF tally.ok = 0 THEN 0 ELSE tally.ok - 1

C20_Witness ==
    /\ tally.ok > 1
    /\ tally.ended > 0
    /\ call.op = "Transit"
    /\ ret.err = ErrForbidSameStateTransit
    /\ \E n \in Names : Get(n) # Nil /\ Get(n) # curr

=============================================================================
